---- MODULE Spec2Model ----
(***************************************************************************)
(* Recording storage service of mern-screen-recorder (backend/server.js). *)
(* The state is the metadata table, the filesystem and the wall clock;    *)
(* every HTTP handler is one action.  Paths are sequences of segments,    *)
(* file contents are described by (tag, len): byte i of a payload with    *)
(* tag t is ByteAt(t, i).  The handlers follow the better-sqlite3 variant  *)
(* (server.js lines 1-241); the sqlite3 callback variant (lines 243-457)   *)
(* resolves paths, ids and ranges the same way.  The capture client        *)
(* (RecordScreen.jsx) and the recordings list (RecordingsList) are the     *)
(* variables client and ui; each has a specification of its own.           *)
(***************************************************************************)
EXTENDS Integers, Sequences, FiniteSets, TLC

\* ---- bounds of the model ------------------------------------------------
MaxUploads == 2      \* upload requests that reach the disk in one behaviour
MaxTime    == 1      \* seconds the wall clock advances
MaxTicks   == 32     \* ticks an interval is followed for

VARIABLES
  dirname,    \* __dirname of server.js, a sequence of path segments
  rows,       \* table recordings: id -> row
  seq,        \* sqlite_sequence: largest rowid ever assigned
  files,      \* filesystem: absolute path -> content
  now,        \* wall clock, whole seconds
  uuids,      \* uuidv4 tokens issued so far
  res,        \* the last response sent
  uploaded,   \* history: the successful uploads, in order
  deleted,    \* history: ids whose DELETE answered 200
  client,     \* RecordScreen: React state, refs and the closures of a recording
  ui          \* RecordingsList: the displayed list and the deletes in flight

vars == <<dirname, rows, seq, files, now, uuids, res, uploaded, deleted,
          client, ui>>

\* ---- paths ---------------------------------------------------------------
\* A path segment.  Directory names carry uuid = 0; the names multer's
\* filename callback generates carry the uuid token and the timestamp.
Dir(name) == [name |-> name, uuid |-> 0, ts |-> 0]

\* `${uuidv4()}-${Date.now()}.webm`
UniqueName(u, t) == [name |-> ".webm", uuid |-> u, ts |-> t]

\* path.join(a, b): the segments of b follow those of a; a leading slash
\* of b does not reset the result.
PathJoin(a, b) == a \o b

\* Places server.js can be deployed at: the filesystem root and /app/backend
Dirnames == { <<>>, <<Dir("app"), Dir("backend")>> }

\* const uploadsDir = path.join(__dirname, 'uploads')
uploadsDir == PathJoin(dirname, <<Dir("uploads")>>)

existsSync(p) == p \in DOMAIN files

\* fs.statSync(p).size
statSize(p) == files[p].len

\* The path the retrieval, download and deletion handlers resolve:
\* path.join(__dirname, row.filepath)
ResolvedPath(row) == PathJoin(dirname, row.filepath)

\* ---- contents ------------------------------------------------------------
ByteAt(tag, i) == (tag * 16 + i) % 256

\* The bytes of a slice [tag, off, len] as a sequence
Bytes(s) == [k \in 1..s.len |-> ByteAt(s.tag, s.off + k - 1)]

NoBody == [tag |-> 0, off |-> 0, len |-> 0]

\* Upload requests: no file part, or a file part of len bytes.  The k-th
\* file part sent carries the bytes ByteAt(k, 0..len-1), so the payloads of
\* different requests differ.
NoFile == [present |-> FALSE, tag |-> 0, len |-> 0]
FilePart(k, len) == [present |-> TRUE, tag |-> k, len |-> len]

\* Payload lengths tried, in bytes
Lens == {0, 2}

\* req.body.duration
Durations == {42}

\* ---- the Range header ----------------------------------------------------
\* range.replace(/bytes=/, "").split("-") leaves two texts, parts[0] and
\* parts[1]; a text is a sequence of characters.
DigitVal == [c \in {"0", "1", "2", "3", "4", "5", "6", "7", "8", "9"} |->
               CASE c = "0" -> 0 [] c = "1" -> 1 [] c = "2" -> 2 [] c = "3" -> 3
                 [] c = "4" -> 4 [] c = "5" -> 5 [] c = "6" -> 6 [] c = "7" -> 7
                 [] c = "8" -> 8 [] c = "9" -> 9]

IsDigit(c) == c \in DOMAIN DigitVal

\* The longest prefix of text made of digits
RECURSIVE DigitPrefix(_)
DigitPrefix(text) ==
  IF text = <<>> \/ ~IsDigit(Head(text)) THEN <<>>
  ELSE <<Head(text)>> \o DigitPrefix(Tail(text))

RECURSIVE DecimalValue(_)
DecimalValue(digits) ==
  IF digits = <<>> THEN 0
  ELSE DecimalValue(SubSeq(digits, 1, Len(digits) - 1)) * 10
         + DigitVal[digits[Len(digits)]]

\* parseInt(text, 10): the value of the leading digits, NaN when there are none
ParseInt(text) ==
  LET d == DigitPrefix(text)
  IN  IF d = <<>> THEN [nan |-> TRUE, val |-> 0]
      ELSE [nan |-> FALSE, val |-> DecimalValue(d)]

Num(n) == [nan |-> FALSE, val |-> n]

RangeTexts == { <<>>, <<"0">>, <<"1">>, <<"1", "0">> }

NoRange == [present |-> FALSE, parts0 |-> <<>>, parts1 |-> <<>>]
Ranges  == {NoRange} \cup [present : {TRUE}, parts0 : RangeTexts, parts1 : RangeTexts]

\* new fs.ReadStream(path, {start, end}) validates its options: start and
\* end must be integers >= 0 and start <= end, otherwise it throws.
CreateReadStreamThrows(start, end) ==
  \/ start.nan \/ end.nan
  \/ start.val < 0 \/ end.val < 0
  \/ start.val > end.val

Min(a, b) == IF a < b THEN a ELSE b
Max(a, b) == IF a > b THEN a ELSE b

\* What the stream delivers: bytes start..end of the file, cut at its end
ReadStream(p, start, end) ==
  [tag |-> files[p].tag, off |-> start,
   len |-> Max(0, Min(end, statSize(p) - 1) - start + 1)]

\* ---- the metadata table --------------------------------------------------
RECURSIVE MaxOf(_)
MaxOf(S) ==
  IF S = {} THEN 0
  ELSE LET x == CHOOSE y \in S : TRUE IN Max(x, MaxOf(S \ {x}))

\* A rowid chosen as for a table without AUTOINCREMENT: one more than the
\* largest rowid now in the table.
NextRowidOfLiveRows(rws, sq) == MaxOf(DOMAIN rws) + 1

\* id INTEGER PRIMARY KEY AUTOINCREMENT: one more than the largest rowid the
\* table has ever held (sqlite_sequence).
NextRowid(rws, sq) == Max(sq, MaxOf(DOMAIN rws)) + 1

\* INSERT INTO recordings (filename, filepath, filesize, duration);
\* createdAt defaults to CURRENT_TIMESTAMP, in whole seconds.
InsertRow(rws, id, filename, filepath, size, duration, t) ==
  [i \in DOMAIN rws \cup {id} |->
     IF i = id
     THEN [id |-> id, filename |-> filename, filepath |-> filepath,
           filesize |-> size, duration |-> duration, createdAt |-> t]
     ELSE rws[i]]

\* A DELETE statement that removes nothing
DeleteRowKept(rws, id) == rws

\* DELETE FROM recordings WHERE id = ?
DeleteRow(rws, id) == [i \in DOMAIN rws \ {id} |-> rws[i]]

\* The row that SELECT ... ORDER BY createdAt DESC returns first: the largest
\* createdAt, and among equal ones the first in rowid (scan) order.
FirstByCreatedAtDesc(rws) ==
  CHOOSE i \in DOMAIN rws :
    \A j \in DOMAIN rws :
      \/ rws[i].createdAt > rws[j].createdAt
      \/ rws[i].createdAt = rws[j].createdAt /\ i <= j

\* SELECT * FROM recordings ORDER BY createdAt DESC
RECURSIVE SelectAllOrdered(_)
SelectAllOrdered(rws) ==
  IF DOMAIN rws = {} THEN <<>>
  ELSE LET i == FirstByCreatedAtDesc(rws)
       IN  <<rws[i]>> \o SelectAllOrdered([j \in DOMAIN rws \ {i} |-> rws[j]])

\* ---- responses -----------------------------------------------------------
Resp(op, id, status, error) ==
  [op |-> op, id |-> id, range |-> NoRange, payload |-> NoFile,
   status |-> status, error |-> error, length |-> 0, crange |-> <<>>,
   body |-> NoBody, list |-> <<>>, recording |-> <<>>, attachment |-> <<>>,
   message |-> "", json |-> TRUE, stack |-> FALSE, fault |-> "none"]

\* The ids requests name: every id the table can assign within the bound
Ids == 1..MaxUploads

\* GET /api/recordings
ListResponse ==
  [Resp("list", 0, 200, "") EXCEPT !.list = SelectAllOrdered(rows)]

\* GET /api/recordings/:id
FetchResponse(id, range) ==
  LET r == [Resp("fetch", id, 0, "") EXCEPT !.range = range]
  IN
  IF id \notin DOMAIN rows
  THEN [r EXCEPT !.status = 404, !.error = "Recording not found"]
  ELSE
    LET filePath == ResolvedPath(rows[id]) IN
    IF ~existsSync(filePath)
    THEN [r EXCEPT !.status = 404, !.error = "Video file not found"]
    ELSE
      LET fileSize == statSize(filePath) IN
      IF range.present
      THEN
        LET start == ParseInt(range.parts0)
            end   == IF range.parts1 # <<>> THEN ParseInt(range.parts1)
                     ELSE Num(fileSize - 1)
            chunksize == (end.val - start.val) + 1
        IN  IF CreateReadStreamThrows(start, end)
            THEN [r EXCEPT !.status = 500, !.error = "Failed to fetch recording"]
            ELSE [r EXCEPT !.status = 206, !.json = FALSE,
                           !.crange = <<start.val, end.val, fileSize>>,
                           !.length = chunksize,
                           !.body   = ReadStream(filePath, start.val, end.val)]
      ELSE [r EXCEPT !.status = 200, !.json = FALSE,
                     !.length = fileSize,
                     !.body   = ReadStream(filePath, 0, fileSize - 1)]

\* A download handler that does not look for the file before sending it
DownloadResponseUnchecked(id) ==
  IF id \notin DOMAIN rows
  THEN Resp("download", id, 404, "Recording not found")
  ELSE [Resp("download", id, 200, "") EXCEPT
          !.attachment = <<rows[id].filename>>]

\* GET /api/recordings/:id/download
DownloadResponse(id) ==
  IF id \notin DOMAIN rows
  THEN Resp("download", id, 404, "Recording not found")
  ELSE
    LET filePath == ResolvedPath(rows[id]) IN
    IF ~existsSync(filePath)
    THEN Resp("download", id, 404, "Video file not found")
    ELSE [Resp("download", id, 200, "") EXCEPT
            !.json = FALSE,
            !.length = statSize(filePath),
            !.body = ReadStream(filePath, 0, statSize(filePath) - 1),
            !.attachment = <<rows[id].filename>>]

\* A delete handler that answers 200 whether or not the row exists
DeleteResponseAlwaysOk(id) ==
  [Resp("delete", id, 200, "") EXCEPT !.message = "Recording deleted successfully"]

\* DELETE /api/recordings/:id: the response
DeleteResponse(id) ==
  IF id \notin DOMAIN rows
  THEN Resp("delete", id, 404, "Recording not found")
  ELSE [Resp("delete", id, 200, "") EXCEPT
          !.message = "Recording deleted successfully"]

\* ---- the browser side, initially -----------------------------------------
\* ---- the capture client (RecordScreen) -------------------------------------
\* The slider offers min="30" .. max="180"; its two ends are enumerated.
RecordingTimes == {30, 180}

\* The invocations of startRecording a behaviour may make.  Each one owns a
\* MediaRecorder, a chunks array, a timeElapsed counter and an interval.
Invocations == {1, 2}

\* One invocation of startRecording: pc is its position (idle: not called,
\* awaiting: inside the awaits of getDisplayMedia/getUserMedia, started: ran to
\* the end, failed: in the catch block); recordingTime and timer are the
\* values of the render whose closure it is; state is its MediaRecorder's.
NoCall ==
  [pc |-> "idle", recordingTime |-> 0, timer |-> 0, state |-> "inactive",
   stopEvent |-> FALSE, interval |-> FALSE, timeElapsed |-> 0,
   sharing |-> FALSE]

\* Number.prototype.toString(): the decimal digits of n
RECURSIVE NumberToString(_)
NumberToString(n) ==
  LET digit(d) == CHOOSE c \in DOMAIN DigitVal : DigitVal[c] = d
  IN  IF n < 10 THEN <<digit(n)>>
      ELSE NumberToString(n \div 10) \o <<digit(n % 10)>>

\* useState/useRef of RecordScreen.  A blob is named by the invocation whose
\* chunks it holds; sent is the last FormData built (blob and duration field).
ClientInit ==
  [recording |-> FALSE, recordedVideo |-> <<>>, recordingTime |-> 180,
   timer |-> 0, mediaRecorderRef |-> 0, timerRef |-> 0,
   calls |-> [i \in Invocations |-> NoCall], sent |-> <<>>]

\* clearInterval(timerRef.current)
ClearInterval(c) ==
  IF c.timerRef = 0 THEN c
  ELSE [c EXCEPT !.calls[c.timerRef].interval = FALSE]

\* stopRecording(): acts only if the recorder in mediaRecorderRef is recording
stopRecording(c) ==
  IF c.mediaRecorderRef # 0 /\ c.calls[c.mediaRecorderRef].state = "recording"
  THEN ClearInterval([c EXCEPT !.calls[c.mediaRecorderRef].state = "inactive",
                               !.calls[c.mediaRecorderRef].stopEvent = TRUE,
                               !.recording = FALSE])
  ELSE c

\* ---- the recordings list (RecordingsList) ---------------------------------
\* useState([]) of recordings; pending holds the deleteRecording calls whose
\* DELETE has been sent and whose response has not arrived, each with the
\* recordings array of the render whose closure it is.
UiInit == [recordings |-> <<>>, pending |-> {}]

\* ---- the upload size limit ------------------------------------------------
\* limits: { fileSize: 100 * 1024 * 1024 }
fileSizeLimit == 100 * 1024 * 1024

\* The multipart parser under multer is busboy.  busboy 0.x (multer up to
\* 1.4.4) signals 'limit' when the bytes of a file part exceed fileSize;
\* busboy 1.x (multer 1.4.5-lts and 2.x) signals it when they reach fileSize.
\* The repository does not pin the version.
BusboyMajors == {0, 1}

LimitReached(size, major) ==
  IF major = 0 THEN size > fileSizeLimit ELSE size >= fileSizeLimit

\* multer passes LIMIT_FILE_SIZE to next(err); server.js installs no error
\* middleware, so Express' default handler answers: status 500 and an HTML
\* page, which carries err.stack unless NODE_ENV is production.
ExpressErrorPage(file, production) ==
  [Resp("upload", 0, 500, "MulterError: File too large") EXCEPT
     !.payload = file, !.json = FALSE, !.stack = ~production]

\* ---- the handlers --------------------------------------------------------
Init ==
  /\ dirname \in Dirnames
  /\ rows = <<>>
  /\ seq = 0
  /\ files = <<>>
  /\ now = 0
  /\ uuids = 0
  /\ res = Resp("none", 0, 0, "")
  /\ uploaded = <<>>
  /\ deleted = {}
  /\ client = ClientInit
  /\ ui = UiInit

\* multer's DiskStorage writes the file part to
\* path.join(destination, filename) and reports that path and the number
\* of bytes written as req.file.path and req.file.size.
WriteFile(fs, p, file) ==
  [q \in DOMAIN fs \cup {p} |->
     IF q = p THEN [tag |-> file.tag, len |-> file.len] ELSE fs[q]]

\* fs.unlinkSync(p)
Unlink(fs, p) == [q \in DOMAIN fs \ {p} |-> fs[q]]

\* POST /api/recordings
Upload(file, duration) ==
  IF ~file.present
  THEN /\ res' = [Resp("upload", 0, 400, "No video file provided")
                    EXCEPT !.payload = file]
       /\ UNCHANGED <<client, ui, dirname, rows, seq, files, now, uuids, uploaded, deleted>>
  ELSE
    /\ uuids < MaxUploads
    /\ uuids' = uuids + 1
    /\ \E major \in BusboyMajors :
         IF LimitReached(file.len, major)
         THEN \* multer aborts, removes the file it wrote and skips the handler
              /\ \E production \in BOOLEAN :
                   res' = ExpressErrorPage(file, production)
              /\ UNCHANGED <<rows, seq, files, uploaded>>
         ELSE
           LET filename == UniqueName(uuids + 1, now)
               filepath == PathJoin(uploadsDir, <<filename>>)
               size     == file.len
               id       == NextRowid(rows, seq)
           IN  /\ files' = WriteFile(files, filepath, file)
               /\ rows' = InsertRow(rows, id, filename, filepath, size, duration, now)
               /\ seq' = id
               /\ res' = [Resp("upload", id, 201, "") EXCEPT
                            !.payload = file,
                            !.message = "Recording uploaded successfully",
                            !.recording = <<[id |-> id, filename |-> filename,
                                             filepath |-> filepath, filesize |-> size,
                                             duration |-> duration, createdAt |-> now]>>]
               /\ uploaded' = Append(uploaded,
                                     [id |-> id, payload |-> file, path |-> filepath])
    /\ UNCHANGED <<client, ui, dirname, now, deleted>>

\* GET /api/recordings
List ==
  /\ res' = ListResponse
  /\ UNCHANGED <<client, ui, dirname, rows, seq, files, now, uuids, uploaded, deleted>>

\* GET /api/recordings/:id
Fetch(id, range) ==
  /\ res' = FetchResponse(id, range)
  /\ UNCHANGED <<client, ui, dirname, rows, seq, files, now, uuids, uploaded, deleted>>

\* A download handler that drops the row when it finds the file missing
DownloadPruning(id) ==
  /\ res' = DownloadResponse(id)
  /\ rows' = IF id \in DOMAIN rows /\ ~existsSync(ResolvedPath(rows[id]))
             THEN DeleteRow(rows, id) ELSE rows
  /\ UNCHANGED <<client, ui, dirname, seq, files, now, uuids, uploaded, deleted>>

\* GET /api/recordings/:id/download
Download(id) ==
  /\ res' = DownloadResponse(id)
  /\ UNCHANGED <<client, ui, dirname, rows, seq, files, now, uuids, uploaded, deleted>>

\* The handler of DELETE /api/recordings/:id
DeleteHandler(id) ==
  IF id \notin DOMAIN rows
  THEN /\ res' = DeleteResponse(id)
       /\ UNCHANGED <<dirname, rows, seq, files, now, uuids, uploaded, deleted>>
  ELSE
    LET filePath == ResolvedPath(rows[id])
    IN  /\ files' = IF existsSync(filePath) THEN Unlink(files, filePath) ELSE files
        /\ rows' = DeleteRow(rows, id)
        /\ res' = DeleteResponse(id)
        /\ deleted' = deleted \cup {id}
        /\ UNCHANGED <<dirname, seq, now, uuids, uploaded>>

\* DELETE /api/recordings/:id
Delete(id) ==
  /\ DeleteHandler(id)
  /\ UNCHANGED <<client, ui>>

\* One second passes
Tick ==
  /\ now < MaxTime
  /\ now' = now + 1
  /\ UNCHANGED <<client, ui, dirname, rows, seq, files, uuids, res, uploaded, deleted>>

Next ==
  \/ \E duration \in Durations : Upload(NoFile, duration)
  \/ \E len \in Lens, duration \in Durations :
       Upload(FilePart(uuids + 1, len), duration)
  \/ List
  \/ \E id \in Ids, range \in Ranges : Fetch(id, range)
  \/ \E id \in Ids : Download(id)
  \/ \E id \in Ids : Delete(id)
  \/ Tick

Spec == Init /\ [][Next]_vars

\* ---- storage failures ----------------------------------------------------
\* An upload whose INSERT fails and whose catch block removes the file again
UploadInsertFailsCleanup(file, duration) ==
  /\ file.present /\ \A major \in BusboyMajors : ~LimitReached(file.len, major)
  /\ uuids < MaxUploads
  /\ uuids' = uuids + 1
  /\ res' = [Resp("upload", 0, 500, "Failed to save recording") EXCEPT
               !.payload = file, !.fault = "insert"]
  /\ UNCHANGED <<client, ui, dirname, rows, seq, files, now, uploaded, deleted>>

\* POST /api/recordings when stmt.run throws: multer has written the file,
\* the catch block answers 500.
UploadInsertFails(file, duration) ==
  /\ file.present /\ \A major \in BusboyMajors : ~LimitReached(file.len, major)
  /\ uuids < MaxUploads
  /\ uuids' = uuids + 1
  /\ LET filename == UniqueName(uuids + 1, now)
         filepath == PathJoin(uploadsDir, <<filename>>)
     IN  files' = WriteFile(files, filepath, file)
  /\ res' = [Resp("upload", 0, 500, "Failed to save recording") EXCEPT
               !.payload = file, !.fault = "insert"]
  /\ UNCHANGED <<client, ui, dirname, rows, seq, now, uploaded, deleted>>

Faults == {"unlink", "deleteRow"}

\* The two delete handlers of server.js: the better-sqlite3 one runs inside
\* try/catch, the sqlite3 one runs inside the db.get callback.
Variants == {"better-sqlite3", "sqlite3"}

\* An exception nobody catches: the request gets no response
NoResponse(op, id) ==
  [Resp(op, id, 0, "uncaught exception") EXCEPT !.json = FALSE]

\* DELETE /api/recordings/:id when fs.unlinkSync or the DELETE statement
\* fails: the statements before the failure have taken effect.  In the
\* try/catch handler both failures reach the catch block (500); in the
\* callback handler the failed DELETE is answered 500 by its callback, while
\* the exception of unlinkSync is thrown out of the db.get callback.
DeleteWithFault(id, fault) ==
  /\ id \in DOMAIN rows
  /\ LET filePath == ResolvedPath(rows[id])
         failed   == [Resp("delete", id, 500, "Failed to delete recording")
                        EXCEPT !.fault = fault]
     IN  IF fault = "unlink"
         THEN /\ existsSync(filePath)
              /\ UNCHANGED <<rows, files>>
              /\ \E variant \in Variants :
                   res' = IF variant = "better-sqlite3" THEN failed
                          ELSE [NoResponse("delete", id) EXCEPT !.fault = fault]
         ELSE /\ files' = IF existsSync(filePath) THEN Unlink(files, filePath)
                          ELSE files
              /\ UNCHANGED rows
              /\ res' = failed
  /\ UNCHANGED <<client, ui, dirname, seq, now, uuids, uploaded, deleted>>

\* ---- actions of the capture client ----------------------------------------
server == <<dirname, rows, seq, files, now, uuids, res, uploaded, deleted>>

\* onChange of the range input: setRecordingTime(parseInt(e.target.value))
SetRecordingTime(v) ==
  /\ client' = [client EXCEPT !.recordingTime = v]
  /\ UNCHANGED <<server, ui>>

\* Click on Start (disabled={recording}): startRecording runs up to its first
\* await, with the recordingTime and timer of the current render
ClickStart(i) ==
  /\ ~client.recording
  /\ client.calls[i].pc = "idle"
  /\ \A j \in Invocations : j < i => client.calls[j].pc # "idle"
  /\ client' = [client EXCEPT !.calls[i] =
                  [NoCall EXCEPT !.pc = "awaiting",
                                 !.recordingTime = client.recordingTime,
                                 !.timer = client.timer]]
  /\ UNCHANGED <<server, ui>>

\* getDisplayMedia/getUserMedia reject: the catch block alerts
MediaDenied(i) ==
  /\ client.calls[i].pc = "awaiting"
  /\ client' = [client EXCEPT !.calls[i].pc = "failed"]
  /\ UNCHANGED <<server, ui>>

\* The awaits resolve: the recorder is created, put in mediaRecorderRef and
\* started, setRecording(true), the interval is created and put in timerRef
MediaGranted(i) ==
  /\ client.calls[i].pc = "awaiting"
  /\ client' = [client EXCEPT !.calls[i].pc = "started",
                              !.calls[i].state = "recording",
                              !.calls[i].timeElapsed = 0,
                              !.calls[i].interval = TRUE,
                              !.calls[i].sharing = TRUE,
                              !.mediaRecorderRef = i,
                              !.timerRef = i,
                              !.recording = TRUE]
  /\ UNCHANGED <<server, ui>>

\* The setInterval callback of invocation i, every second while its interval
\* is not cleared (followed for MaxTicks ticks)
IntervalTick(i) ==
  /\ client.calls[i].interval
  /\ client.calls[i].timeElapsed < MaxTicks
  /\ LET t == client.calls[i].timeElapsed + 1
         c == [client EXCEPT !.calls[i].timeElapsed = t, !.timer = t]
     IN  client' = IF t >= client.calls[i].recordingTime THEN stopRecording(c)
                   ELSE c
  /\ UNCHANGED <<server, ui>>

\* Click on Stop (disabled={!recording})
ClickStop ==
  /\ client.recording
  /\ client' = stopRecording(client)
  /\ UNCHANGED <<server, ui>>

\* onended of the screen track of invocation i
SharingEnded(i) ==
  /\ client.calls[i].sharing
  /\ client' = stopRecording([client EXCEPT !.calls[i].sharing = FALSE])
  /\ UNCHANGED <<server, ui>>

\* mediaRecorder.onstop of invocation i: duration is the timer of its closure
OnStop(i) ==
  /\ client.calls[i].stopEvent
  /\ client' = [ClearInterval(client) EXCEPT
                  !.calls[i].stopEvent = FALSE,
                  !.recordedVideo =
                     <<[blob |-> i, duration |-> client.calls[i].timer]>>,
                  !.timer = 0]
  /\ UNCHANGED <<server, ui>>

\* uploadRecording: formData.append('duration', duration.toString())
UploadRecording ==
  /\ client.recordedVideo # <<>>
  /\ client' = [client EXCEPT !.sent =
                  <<[blob     |-> client.recordedVideo[1].blob,
                     duration |->
                        NumberToString(client.recordedVideo[1].duration)]>>]
  /\ UNCHANGED <<server, ui>>

\* The page as loaded; the server it talks to is left alone here
InitClient == Init /\ dirname = <<>>

\* One recording, from the first click on Start to its upload
NextClient ==
  \/ \E v \in RecordingTimes : SetRecordingTime(v)
  \/ ClickStart(1)
  \/ MediaDenied(1)
  \/ MediaGranted(1)
  \/ IntervalTick(1)
  \/ ClickStop
  \/ SharingEnded(1)
  \/ OnStop(1)
  \/ UploadRecording

SpecClient == InitClient /\ [][NextClient]_vars

\* Start can be clicked again while an earlier startRecording is still inside
\* its awaits: the button is disabled only by setRecording(true)
NextRace ==
  \/ \E v \in RecordingTimes : SetRecordingTime(v)
  \/ \E i \in Invocations : ClickStart(i)
  \/ \E i \in Invocations : MediaDenied(i)
  \/ \E i \in Invocations : MediaGranted(i)
  \/ \E i \in Invocations : IntervalTick(i)
  \/ ClickStop
  \/ \E i \in Invocations : SharingEnded(i)
  \/ \E i \in Invocations : OnStop(i)

SpecRace == InitClient /\ [][NextRace]_vars

\* ---- actions of the recordings list ---------------------------------------
\* fetchRecordings (on mount and on Refresh): GET /api/recordings, then
\* setRecordings(data)
FetchRecordings ==
  /\ res' = ListResponse
  /\ ui' = [ui EXCEPT !.recordings = ListResponse.list]
  /\ UNCHANGED <<client, dirname, rows, seq, files, now, uuids, uploaded, deleted>>

\* Click on the delete button of a displayed recording: deleteRecording(id)
\* sends the DELETE, which the server handles; the call waits for the response
ClickDelete(id) ==
  /\ \E k \in DOMAIN ui.recordings : ui.recordings[k].id = id
  /\ DeleteHandler(id)
  /\ ui' = [ui EXCEPT !.pending = @ \cup
               {[id |-> id, recordings |-> ui.recordings,
                 ok |-> res'.status = 200]}]
  /\ UNCHANGED client

\* The response of a DELETE arrives: on response.ok,
\* setRecordings(recordings.filter(rec => rec.id !== id)) with the recordings
\* of the call's closure; otherwise an alert
CompleteDelete(p) ==
  /\ p \in ui.pending
  /\ ui' = [ui EXCEPT
              !.pending = @ \ {p},
              !.recordings =
                 IF p.ok
                 THEN SelectSeq(p.recordings, LAMBDA rec : rec.id # p.id)
                 ELSE @]
  /\ UNCHANGED <<client, server>>

NextUI ==
  \/ \E len \in Lens, duration \in Durations :
       Upload(FilePart(uuids + 1, len), duration)
  \/ FetchRecordings
  \/ \E id \in Ids : ClickDelete(id)
  \/ \E p \in ui.pending : CompleteDelete(p)
  \/ Tick

SpecUI == Init /\ [][NextUI]_vars

NextFault ==
  \/ \E len \in Lens, duration \in Durations :
       Upload(FilePart(uuids + 1, len), duration)
  \/ \E len \in Lens, duration \in Durations :
       UploadInsertFails(FilePart(uuids + 1, len), duration)
  \/ List
  \/ \E id \in Ids : Download(id)
  \/ \E id \in Ids : Delete(id)
  \/ \E id \in Ids, fault \in Faults : DeleteWithFault(id, fault)
  \/ Tick

SpecFault == Init /\ [][NextFault]_vars

\* ---- uploads at the size limit -------------------------------------------
\* Payload lengths around limits.fileSize
LimitLens == {fileSizeLimit - 1, fileSizeLimit, fileSizeLimit + 1}

NextLimit ==
  \/ \E len \in LimitLens, duration \in Durations :
       Upload(FilePart(uuids + 1, len), duration)
  \/ List
  \/ \E id \in Ids : Download(id)
  \/ \E id \in Ids : Delete(id)
  \/ Tick

SpecLimit == Init /\ [][NextLimit]_vars

\* ---- the claims ----------------------------------------------------------
\* The uploads that answered 201 with this id
UploadsOf(id) == {k \in DOMAIN uploaded : uploaded[k].id = id}

\* The bytes of an uploaded payload
PayloadBytes(file) == Bytes([tag |-> file.tag, off |-> 0, len |-> file.len])

\* C1: round trip.  A GET /api/recordings/:id without a Range header, for an
\* id a successful upload returned and no delete has removed, answers 200 with
\* Content-Length N and the N uploaded bytes as its body.
RoundTrip ==
  (res.op = "fetch" /\ ~res.range.present) =>
    \A k \in UploadsOf(res.id) :
      res.id \notin deleted =>
        /\ res.status = 200
        /\ res.length = uploaded[k].payload.len
        /\ Bytes(res.body) = PayloadBytes(uploaded[k].payload)

\* C2: range correctness.  For a stored recording whose file has size S and
\* a Range header bytes=a-b with 0 <= a <= b < S, the answer is 206 with
\* Content-Length b-a+1, Content-Range bytes a-b/S and bytes a..b of the
\* uploaded file as its body.
RangeCorrect ==
  (res.op = "fetch" /\ res.range.present /\ res.range.parts1 # <<>>) =>
    \A k \in UploadsOf(res.id) :
      LET a == ParseInt(res.range.parts0)
          b == ParseInt(res.range.parts1)
          S == uploaded[k].payload.len
      IN  (res.id \notin deleted /\ ~a.nan /\ ~b.nan
             /\ 0 <= a.val /\ a.val <= b.val /\ b.val < S) =>
            /\ res.status = 206
            /\ res.length = b.val - a.val + 1
            /\ res.crange = <<a.val, b.val, S>>
            /\ Bytes(res.body) =
                 SubSeq(PayloadBytes(uploaded[k].payload), a.val + 1, b.val + 1)

\* C3: file/row consistency.  Every live row has an existing file at the
\* location the handlers resolve from its filepath, of length filesize.
FileRowConsistent ==
  \A id \in DOMAIN rows :
    /\ existsSync(ResolvedPath(rows[id]))
    /\ statSize(ResolvedPath(rows[id])) = rows[id].filesize

\* C4: identifier uniqueness.  The ids successful uploads returned are
\* pairwise different, every live row belongs to exactly one upload, and a
\* deleted id is never live again.
UniqueIds ==
  /\ \A i, j \in DOMAIN uploaded : i # j => uploaded[i].id # uploaded[j].id
  /\ \A id \in DOMAIN rows : rows[id].id = id /\ Cardinality(UploadsOf(id)) = 1
  /\ \A d \in deleted : d \notin DOMAIN rows

\* An upload answered 201 after the row with the largest id was deleted and
\* the table was left empty
UploadAfterDelete ==
  /\ res.op = "upload" /\ res.status = 201
  /\ (res.id - 1) \in deleted
  /\ DOMAIN rows = {res.id}

\* C5: once DELETE has answered 200 for an id, the listing omits it and
\* fetch, download and delete of that id answer 404, whatever else happens.
DeletedStaysGone ==
  \A d \in deleted :
    /\ \A i \in DOMAIN ListResponse.list : ListResponse.list[i].id # d
    /\ \A range \in Ranges : FetchResponse(d, range).status = 404
    /\ DownloadResponse(d).status = 404
    /\ DeleteResponse(d).status = 404
    /\ (res.id = d /\ res.op \in {"fetch", "download"}) => res.status = 404
    /\ res.op = "list" => \A i \in DOMAIN res.list : res.list[i].id # d

\* A request for a deleted id was answered while other recordings are live
\* and an upload has happened since the delete
GoneAfterLaterUpload ==
  /\ res.op \in {"fetch", "download", "delete"}
  /\ res.status = 404
  /\ res.id \in deleted
  /\ \E id \in DOMAIN rows : id > res.id

\* C6: a successful delete frees the disk space.  After DELETE has answered
\* 200 for a recording, the file its upload wrote is no longer in the content
\* directory and its row is gone.
DeleteFreesDisk ==
  \A k \in DOMAIN uploaded :
    uploaded[k].id \in deleted =>
      /\ ~existsSync(uploaded[k].path)
      /\ uploaded[k].id \notin DOMAIN rows

\* The position of the row with this id in a listing, 0 when it is absent
PositionOf(list, id) ==
  IF \E i \in DOMAIN list : list[i].id = id
  THEN CHOOSE i \in DOMAIN list : list[i].id = id
  ELSE 0

\* C7: the listing returns every live recording exactly once, and of two
\* live recordings the one uploaded later comes before the other.
NewestFirst ==
  LET list == ListResponse.list
  IN  /\ Len(list) = Cardinality(DOMAIN rows)
      /\ \A id \in DOMAIN rows : \E i \in DOMAIN list : list[i] = rows[id]
      /\ \A i, j \in DOMAIN uploaded :
           (i < j /\ uploaded[i].id \in DOMAIN rows /\ uploaded[j].id \in DOMAIN rows)
             => PositionOf(list, uploaded[j].id) < PositionOf(list, uploaded[i].id)

\* C8: fetch and download answer 404 when no row has the id, answer 404 when
\* the row's file is missing at the resolved path, and agree on whether the
\* outcome is success or not-found.
FetchDownloadAgree ==
  \A id \in Ids :
    LET down == DownloadResponse(id).status
    IN  /\ \A range \in Ranges :
             LET fetch == FetchResponse(id, range).status
             IN  /\ id \notin DOMAIN rows => fetch = 404 /\ down = 404
                 /\ (id \in DOMAIN rows /\ ~existsSync(ResolvedPath(rows[id])))
                      => fetch = 404 /\ down = 404
                 /\ (fetch = 404) <=> (down = 404)
        /\ (FetchResponse(id, NoRange).status = 200) <=> (down = 200)
        /\ (res.op = "download" /\ res.id = id) => res.status = down

\* A download of a live row whose file is missing was answered 404
DownloadOfMissingFile ==
  /\ res.op = "download" /\ res.status = 404
  /\ res.id \in DOMAIN rows
  /\ ~existsSync(ResolvedPath(rows[res.id]))

\* C9: DELETE for an id that has no row answers 404 and leaves the rows and
\* the files unchanged.
DeleteUnknownIsNoOp ==
  [][ \A id \in Ids :
        (id \notin DOMAIN rows /\ res' # res /\ res'.op = "delete" /\ res'.id = id)
          => (res'.status = 404 /\ rows' = rows /\ files' = files) ]_vars

\* A delete of an id without a row was answered while rows and files exist
DeleteOfUnknownAnswered ==
  /\ res.op = "delete" /\ res.status = 404
  /\ res.id \notin DOMAIN rows
  /\ DOMAIN rows # {} /\ DOMAIN files # {}

\* C10: an upload whose payload is absent or empty is answered 400 and
\* inserts no row and adds no file.
EmptyUploadRejected ==
  [][ (res' # res /\ res'.op = "upload"
         /\ (~res'.payload.present \/ res'.payload.len = 0))
        => (res'.status = 400 /\ rows' = rows /\ files' = files) ]_vars

\* C11: an upload of exactly limits.fileSize bytes is answered 201 and
\* creates a row; an upload of one byte more is rejected and creates no row.
SizeBoundary ==
  [][ (res' # res /\ res'.op = "upload" /\ res'.payload.present) =>
        /\ res'.payload.len = fileSizeLimit =>
             /\ res'.status = 201
             /\ res'.id \notin DOMAIN rows
             /\ DOMAIN rows' = DOMAIN rows \cup {res'.id}
             /\ rows'[res'.id].filesize = fileSizeLimit
        /\ res'.payload.len = fileSizeLimit + 1 =>
             /\ res'.status >= 400
             /\ rows' = rows ]_vars

\* C12: every failing response is a JSON error object with a 4xx/5xx status
\* and a short message, without a stack trace or a server path.
FailuresAreJsonErrors ==
  res.status >= 400 =>
    /\ res.status < 600
    /\ res.json
    /\ res.error \in {"No video file provided", "Recording not found",
                      "Video file not found", "Failed to save recording",
                      "Failed to fetch recordings", "Failed to fetch recording",
                      "Failed to delete recording"}
    /\ ~res.stack

\* C13: list, fetch and download leave the rows and the files unchanged, and
\* a listing taken after them equals the listing taken before.
ReadsArePure ==
  [][ (res' # res /\ res'.op \in {"list", "fetch", "download"}) =>
        /\ rows' = rows /\ files' = files /\ seq' = seq
        /\ ListResponse'.list = ListResponse.list
        /\ res.op = "list" => ListResponse'.list = res.list
        /\ res'.op = "list" => res'.list = ListResponse.list ]_vars

\* A listing of two recordings was returned
ListedTwoRows ==
  /\ res.op = "list" /\ res.status = 200
  /\ Len(res.list) = 2

\* C17: whatever the Range header, a 206 response declares as Content-Length
\* the number of body bytes it sends, its Content-Range span lies within
\* 0..S-1, and the span ends at S-1 when the header omits the end.
RangeSpanDeclared ==
  (res.op = "fetch" /\ res.status = 206) =>
    /\ res.length = res.body.len
    /\ 0 <= res.crange[1] /\ res.crange[1] <= res.crange[2]
    /\ res.crange[2] <= res.crange[3] - 1
    /\ res.range.parts1 = <<>> => res.crange[2] = res.crange[3] - 1

\* C15: within one delete the file is removed before the row.  If removing
\* the file fails the answer is a failure and the row is still there; if
\* removing the row fails the answer is a failure and the row remains
\* without its file; a row is never removed while its file is still there.
FileBeforeRow ==
  [][ \A id \in DOMAIN rows :
        (res' # res /\ res'.op = "delete" /\ res'.id = id) =>
          LET filePath == ResolvedPath(rows[id])
          IN  /\ res'.fault = "unlink" =>
                   (res'.status = 500 /\ rows' = rows /\ files' = files)
              /\ res'.fault = "deleteRow" =>
                   (res'.status = 500 /\ rows' = rows
                      /\ filePath \notin DOMAIN files')
              /\ rows' # rows => filePath \notin DOMAIN files' ]_vars

\* C16: if the INSERT fails after the payload was written, the answer is the
\* generic 500, no row is added, and the written file stays on disk.
OrphanOnFailedInsert ==
  [][ (res' # res /\ res'.op = "upload" /\ res'.fault = "insert") =>
        LET filepath == PathJoin(uploadsDir, <<UniqueName(uuids + 1, now)>>)
        IN  /\ res'.status = 500
            /\ res'.error = "Failed to save recording"
            /\ rows' = rows
            /\ filepath \notin DOMAIN files
            /\ DOMAIN files' = DOMAIN files \cup {filepath}
            /\ files'[filepath].len = res'.payload.len ]_vars

\* An insert failed and left a file without a row
OrphanFileLeft ==
  /\ res.op = "upload" /\ res.fault = "insert" /\ res.status = 500
  /\ Cardinality(DOMAIN files) > Len(uploaded)

\* C14: a recording started with length L is stopped no later than the tick
\* at which its elapsed time reaches L, its elapsed counter never exceeds L,
\* and its interval does not tick once its recorder has stopped.
MaxDurationEnforced ==
  \A i \in Invocations :
    LET call == client.calls[i]
    IN  call.pc = "started" =>
          /\ call.timeElapsed <= call.recordingTime
          /\ call.state = "recording" => call.timeElapsed < call.recordingTime
          /\ call.interval => call.state = "recording"

\* C18: the duration sent with an upload is the number of seconds the timer
\* counted between the start and the stop of that recording.
DurationSentIsCounted ==
  client.sent # <<>> =>
    DecimalValue(client.sent[1].duration)
      = client.calls[client.sent[1].blob].timeElapsed

\* C19: once every delete request sent from the list has completed, the
\* displayed list contains none of the deleted recordings: a delete that
\* completes later does not put back what an earlier one removed.
DeletedNotDisplayed ==
  ui.pending = {} =>
    \A k \in DOMAIN ui.recordings : ui.recordings[k].id \notin deleted

====
